---- MODULE Spec2Model ----
(***************************************************************************)
(* Model of fountaineer's block classifier, parse_fountain                *)
(* (src/fountaineer/parser.py).  A text is a sequence of one-character    *)
(* strings, so that strip, startswith, endswith, isupper, replace and     *)
(* split are computed character by character as Python computes them.     *)
(***************************************************************************)
EXTENDS Integers, Sequences, FiniteSets, TLC

\* ------------------------------------------------------------------------
\* Bounds
\* ------------------------------------------------------------------------
MaxLines == 4

\* ------------------------------------------------------------------------
\* Characters and the str methods used by the parser
\* ------------------------------------------------------------------------
Whitespace == {" ", "\t", "\n", "\r"}

UpperChars == {"A", "B", "C", "D", "E", "F", "G", "H", "I", "J", "K", "L", "M",
               "N", "O", "P", "Q", "R", "S", "T", "U", "V", "W", "X", "Y", "Z"}

LowerChars == {"a", "b", "c", "d", "e", "f", "g", "h", "i", "j", "k", "l", "m",
               "n", "o", "p", "q", "r", "s", "t", "u", "v", "w", "x", "y", "z"}

\* str.strip(chars): drop the characters of chars from both ends
StripChars(s, chars) ==
    LET keep == {i \in 1..Len(s) : s[i] \notin chars}
    IN  IF keep = {} THEN <<>>
        ELSE SubSeq(s, CHOOSE i \in keep : \A j \in keep : i <= j,
                       CHOOSE i \in keep : \A j \in keep : i >= j)

\* str.strip()
Strip(s) == StripChars(s, Whitespace)

\* str.startswith(p)
StartsWith(s, p) == Len(s) >= Len(p) /\ SubSeq(s, 1, Len(p)) = p

\* str.startswith((p1, p2, ...))
StartsWithAny(s, ps) == \E p \in ps : StartsWith(s, p)

\* str.endswith(p)
EndsWith(s, p) == Len(s) >= Len(p) /\ SubSeq(s, Len(s) - Len(p) + 1, Len(s)) = p

\* str.isupper(): at least one cased character and no lower-case one
IsUpper(s) == /\ \E i \in 1..Len(s) : s[i] \in UpperChars
              /\ \A i \in 1..Len(s) : s[i] \notin LowerChars

\* str.replace(old, new): every non-overlapping occurrence, left to right
RECURSIVE Replace(_, _, _)
Replace(s, old, new) ==
    IF s = <<>> THEN <<>>
    ELSE IF StartsWith(s, old)
         THEN new \o Replace(SubSeq(s, Len(old) + 1, Len(s)), old, new)
         ELSE <<Head(s)>> \o Replace(Tail(s), old, new)

\* str.split(sep) for a one-character sep: one part more than there are
\* separators, the n-th part lying between the (n-1)-th and the n-th
\* separator; "".split(",") is [""]
Split(s, sep) ==
    LET at      == {i \in 1..Len(s) : s[i] = sep}
        Nth(n)  == CHOOSE i \in at : Cardinality({j \in at : j < i}) = n - 1
        From(n) == IF n = 1 THEN 1 ELSE Nth(n - 1) + 1
        To(n)   == IF n = Cardinality(at) + 1 THEN Len(s) ELSE Nth(n) - 1
    IN  [n \in 1..(Cardinality(at) + 1) |-> SubSeq(s, From(n), To(n))]

\* ------------------------------------------------------------------------
\* Literals of the parser
\* ------------------------------------------------------------------------
TitlePrefix     == <<"T", "i", "t", "l", "e", ":">>
CreditPrefix    == <<"C", "r", "e", "d", "i", "t", ":">>
AuthorPrefix    == <<"A", "u", "t", "h", "o", "r", ":">>
DraftDatePrefix == <<"D", "r", "a", "f", "t", " ", "d", "a", "t", "e", ":">>
MetadataPrefixes == {TitlePrefix, CreditPrefix, AuthorPrefix, DraftDatePrefix}

CastPrefix == <<"C", "a", "s", "t", ":">>

Blackout    == <<"B", "L", "A", "C", "K", "O", "U", "T">>
FadeOut     == <<"F", "A", "D", "E", " ", "O", "U", "T", ".">>
FadeToBlack == <<"F", "A", "D", "E", " ", "T", "O", " ", "B", "L", "A", "C", "K", ".">>
TransitionWords == {Blackout, FadeOut, FadeToBlack}
ToColon == <<"T", "O", ":">>

IntPrefix == <<"I", "N", "T", ".">>
ExtPrefix == <<"E", "X", "T", ".">>
ScenePrefixes == {IntPrefix, ExtPrefix}

\* ------------------------------------------------------------------------
\* Input lines, as f.readlines() returns them
\* ------------------------------------------------------------------------
Vocabulary ==
    { <<"\n">>,
      <<"T", "i", "t", "l", "e", ":", " ", "T", "O", ":", "\n">>,
      <<"C", "a", "s", "t", ":", " ", "[", "A", ",", ",", " ", "B", "]", "\n">>,
      <<"C", "U", "T", " ", "T", "O", ":", "\n">>,
      <<"F", "A", "D", "E", " ", "O", "U", "T", ".", "\n">>,
      <<"B", "O", "B", "\n">>,
      <<"(", "B", "O", "B", ")", "\n">>,
      <<"(", "b", "e", "a", "t", ")", "\n">>,
      <<"I", "N", "T", ".", " ", "L", "A", "B", "\n">>,
      <<"h", "i", "\n">>,
      <<" ", "y", "o", "\n">> }

Inputs == UNION {[1..n -> Vocabulary] : n \in 0..MaxLines}

\* ------------------------------------------------------------------------
\* Blocks.  type and text are the dict's keys; src is a history field that
\* records the 1-based numbers of the input lines whose text went into the
\* block, in the order they were added.
\* ------------------------------------------------------------------------
NoBlock == [type |-> "none", text |-> <<>>, src |-> <<>>]

Block(type, text, n) == [type |-> type, text |-> text, src |-> <<n>>]

EmitKinds    == {"metadata", "cast", "transition"}
PendingKinds == {"character", "parenthetical", "scene", "dialogue", "action"}

\* ------------------------------------------------------------------------
\* State
\* ------------------------------------------------------------------------
VARIABLES
    lines,          \* lines = f.readlines()
    ii,             \* number of lines already processed by the for loop
    blocks,         \* the output list
    current_block,  \* the pending block, NoBlock for None
    pc,             \* "loop" inside the for loop, "done" after return
    rules,          \* history: the branch taken for each processed line
    trace,          \* history: current_block after each processed line
    calls,          \* history: number of calls of parse_fountain so far
    first           \* history: what the previous call returned and went through

\* State of render_fountain_to_pdf (src/fountaineer/renderer.py), which calls
\* parse_fountain and consumes the blocks it returns
VARIABLES
    settings,       \* settings = json.load(json_file)
    new_blocks,     \* the blocks kept for the screenplay body
    title_info,     \* title, author, draft_date and cast_list
    lookups,        \* history: the keys looked up in settings by the body loop
    drawn           \* history: what the body loop drew, one entry per block

rvars == <<settings, new_blocks, title_info, lookups, drawn>>

vars == <<lines, ii, blocks, current_block, pc, rules, trace, calls, first,
          settings, new_blocks, title_info, lookups, drawn>>

line     == lines[ii + 1]
stripped == Strip(line)

\* variant: the output list is created once and shared by all calls
NewBlocksShared(old) == old

\* blocks = [] at the start of a call
NewBlocks(old) == <<>>

\* current_block = None at the start of a call
NewCurrent(old) == NoBlock

NoResult == [blocks |-> <<>>, trace |-> <<>>, rules |-> <<>>]

\* settings before the configuration file is loaded
NoSettings == [margins |-> <<>>, format_style |-> "standard"]

\* title, author, draft_date, cast_list = "", "", "", []
NoTitleInfo == [title |-> <<>>, author |-> <<>>, draft_date |-> <<>>, cast_list |-> <<>>]

Init ==
    /\ lines \in Inputs
    /\ ii = 0
    /\ blocks = NewBlocks(<<>>)
    /\ current_block = NewCurrent(NoBlock)
    /\ pc = "loop"
    /\ rules = <<>>
    /\ trace = <<>>
    /\ calls = 1
    /\ first = NoResult
    /\ settings = NoSettings
    /\ new_blocks = <<>>
    /\ title_info = NoTitleInfo
    /\ lookups = <<>>
    /\ drawn = <<>>

\* ------------------------------------------------------------------------
\* The conditions of the if/elif chain
\* ------------------------------------------------------------------------
IsBlank(s)         == s = <<>>
IsMetadata(s)      == StartsWithAny(s, MetadataPrefixes)
IsCast(s)          == StartsWith(s, CastPrefix)
IsTransition(s)    == s \in TransitionWords \/ EndsWith(s, ToColon)
\* variant: the character test without the INT./EXT. exclusion
IsCharacterUnguarded(s) == IsUpper(s)

IsCharacter(s)     == IsUpper(s) /\ ~StartsWithAny(s, ScenePrefixes)
IsParenthetical(s) == StartsWith(s, <<"(">>) /\ EndsWith(s, <<")">>)
IsScene(s)         == StartsWithAny(s, ScenePrefixes)
\* variant: a pending scene heading is taken for a speaker cue as well
AfterCueOrScene(cb) ==
    cb # NoBlock /\ cb.type \in {"character", "parenthetical", "scene"}

AfterCue(cb)       == cb # NoBlock /\ cb.type \in {"character", "parenthetical"}
InDialogue(cb)     == cb # NoBlock /\ cb.type = "dialogue"

\* variant: the transition test comes after the dialogue tests
BranchTransitionLate(s, cb) ==
    IF IsBlank(s) THEN "blank"
    ELSE IF IsMetadata(s) THEN "metadata"
    ELSE IF IsCast(s) THEN "cast"
    ELSE IF IsCharacter(s) THEN "character"
    ELSE IF IsParenthetical(s) THEN "parenthetical"
    ELSE IF IsScene(s) THEN "scene"
    ELSE IF AfterCue(cb) THEN "dialogue"
    ELSE IF InDialogue(cb) THEN "append"
    ELSE IF IsTransition(s) THEN "transition"
    ELSE "action"

\* variant: the parenthetical test comes before the character test
BranchParentheticalFirst(s, cb) ==
    IF IsBlank(s) THEN "blank"
    ELSE IF IsMetadata(s) THEN "metadata"
    ELSE IF IsCast(s) THEN "cast"
    ELSE IF IsTransition(s) THEN "transition"
    ELSE IF IsParenthetical(s) THEN "parenthetical"
    ELSE IF IsCharacter(s) THEN "character"
    ELSE IF IsScene(s) THEN "scene"
    ELSE IF AfterCue(cb) THEN "dialogue"
    ELSE IF InDialogue(cb) THEN "append"
    ELSE "action"

\* variant: no default branch, a line that fits no rule is rejected
BranchRejects(s, cb) ==
    IF IsBlank(s) THEN "blank"
    ELSE IF IsMetadata(s) THEN "metadata"
    ELSE IF IsCast(s) THEN "cast"
    ELSE IF IsTransition(s) THEN "transition"
    ELSE IF IsCharacter(s) THEN "character"
    ELSE IF IsParenthetical(s) THEN "parenthetical"
    ELSE IF IsScene(s) THEN "scene"
    ELSE IF AfterCue(cb) THEN "dialogue"
    ELSE IF InDialogue(cb) THEN "append"
    ELSE "error"

\* The branch of the loop body that handles the trimmed line s when cb is
\* pending: the first condition of the chain that holds.
Branch(s, cb) ==
    IF IsBlank(s) THEN "blank"
    ELSE IF IsMetadata(s) THEN "metadata"
    ELSE IF IsCast(s) THEN "cast"
    ELSE IF IsTransition(s) THEN "transition"
    ELSE IF IsCharacter(s) THEN "character"
    ELSE IF IsParenthetical(s) THEN "parenthetical"
    ELSE IF IsScene(s) THEN "scene"
    ELSE IF AfterCue(cb) THEN "dialogue"
    ELSE IF InDialogue(cb) THEN "append"
    ELSE "action"

\* variant: the pending block is stored at the front of the output
StoreInFront(bs, cb) == IF cb # NoBlock THEN <<cb>> \o bs ELSE bs

\* variant: the pending block is not stored before the switch
StoreSkipped(bs, cb) == bs

\* if current_block: blocks.append(current_block)
Store(bs, cb) == IF cb # NoBlock THEN Append(bs, cb) ELSE bs

\* variant: the parenthetical branch never stores the pending block
StoreCharacterSkipped(bs, cb) == bs

\* the parenthetical branch stores the pending block only if it is a character
StoreCharacter(bs, cb) ==
    IF cb # NoBlock /\ cb.type = "character" THEN Append(bs, cb) ELSE bs

\* cast_list of the cast branch
CastList(s) ==
    LET cast_names == Strip(Replace(s, CastPrefix, <<>>))
        parts      == Split(StripChars(cast_names, {"[", "]"}), ",")
    IN  [k \in 1..Len(parts) |-> Strip(parts[k])]

\* current_block["text"] += f" {stripped}"
Accumulate(cb, s, n) ==
    [cb EXCEPT !.text = @ \o <<" ">> \o s, !.src = Append(@, n)]

\* variant: the block pending at the end of the input is not stored
FinalStoreSkipped(bs, cb) == bs

\* the last statements before return
FinalStore(bs, cb) == IF cb # NoBlock THEN Append(bs, cb) ELSE bs

\* ------------------------------------------------------------------------
\* One iteration of the for loop, one action per branch
\* ------------------------------------------------------------------------
Taken(r) ==
    /\ pc = "loop"
    /\ ii < Len(lines)
    /\ Branch(stripped, current_block) = r

Advance(r) ==
    /\ ii' = ii + 1
    /\ rules' = Append(rules, r)
    /\ trace' = Append(trace, current_block')
    /\ UNCHANGED <<lines, pc, calls, first>>
    /\ UNCHANGED rvars

\* variant: the blank line stores the pending block but does not reset it
BlankLineKeeps ==
    /\ Taken("blank")
    /\ blocks' = Store(blocks, current_block)
    /\ current_block' = current_block
    /\ Advance("blank")

BlankLine ==
    /\ Taken("blank")
    /\ blocks' = Store(blocks, current_block)
    /\ current_block' = NoBlock
    /\ Advance("blank")

\* variant: the metadata block goes through the pending slot
MetadataLinePending ==
    /\ Taken("metadata")
    /\ blocks' = Store(blocks, current_block)
    /\ current_block' = Block("metadata", stripped, ii + 1)
    /\ Advance("metadata")

MetadataLine ==
    /\ Taken("metadata")
    /\ blocks' = Append(blocks, Block("metadata", stripped, ii + 1))
    /\ current_block' = current_block
    /\ Advance("metadata")

CastLine ==
    /\ Taken("cast")
    /\ blocks' = Append(blocks, Block("cast", CastList(stripped), ii + 1))
    /\ current_block' = current_block
    /\ Advance("cast")

\* variant: the pending block is stored and cleared before the transition
TransitionLineFlushing ==
    /\ Taken("transition")
    /\ blocks' = Append(Store(blocks, current_block),
                        Block("transition", stripped, ii + 1))
    /\ current_block' = NoBlock
    /\ Advance("transition")

TransitionLine ==
    /\ Taken("transition")
    /\ blocks' = Append(blocks, Block("transition", stripped, ii + 1))
    /\ current_block' = current_block
    /\ Advance("transition")

CharacterLine ==
    /\ Taken("character")
    /\ blocks' = Store(blocks, current_block)
    /\ current_block' = Block("character", stripped, ii + 1)
    /\ Advance("character")

ParentheticalLine ==
    /\ Taken("parenthetical")
    /\ blocks' = StoreCharacter(blocks, current_block)
    /\ current_block' = Block("parenthetical", stripped, ii + 1)
    /\ Advance("parenthetical")

SceneLine ==
    /\ Taken("scene")
    /\ blocks' = Store(blocks, current_block)
    /\ current_block' = Block("scene", stripped, ii + 1)
    /\ Advance("scene")

DialogueLine ==
    /\ Taken("dialogue")
    /\ blocks' = Append(blocks, current_block)
    /\ current_block' = Block("dialogue", stripped, ii + 1)
    /\ Advance("dialogue")

DialogueAppend ==
    /\ Taken("append")
    /\ blocks' = blocks
    /\ current_block' = Accumulate(current_block, stripped, ii + 1)
    /\ Advance("append")

ActionLine ==
    /\ Taken("action")
    /\ blocks' = Store(blocks, current_block)
    /\ current_block' = Block("action", stripped, ii + 1)
    /\ Advance("action")

\* end of the loop: store the last block and return blocks
Return ==
    /\ pc = "loop"
    /\ ii = Len(lines)
    /\ blocks' = FinalStore(blocks, current_block)
    /\ pc' = "done"
    /\ UNCHANGED <<lines, ii, current_block, rules, trace, calls, first>>
    /\ UNCHANGED rvars

Next ==
    \/ BlankLine
    \/ MetadataLine
    \/ CastLine
    \/ TransitionLine
    \/ CharacterLine
    \/ ParentheticalLine
    \/ SceneLine
    \/ DialogueLine
    \/ DialogueAppend
    \/ ActionLine
    \/ Return

Spec == Init /\ [][Next]_vars

\* ------------------------------------------------------------------------
\* A second call of parse_fountain on the same file (cli.py and renderer.py
\* both call it): the locals are created afresh, the file holds the same lines.
\* ------------------------------------------------------------------------
MaxCalls == 2

Reinvoke ==
    /\ pc = "done"
    /\ calls < MaxCalls
    /\ first' = [blocks |-> blocks, trace |-> trace, rules |-> rules]
    /\ blocks' = NewBlocks(blocks)
    /\ current_block' = NewCurrent(current_block)
    /\ ii' = 0
    /\ rules' = <<>>
    /\ trace' = <<>>
    /\ pc' = "loop"
    /\ calls' = calls + 1
    /\ UNCHANGED lines
    /\ UNCHANGED rvars

NextTwice == Next \/ Reinvoke

SpecTwice == Init /\ [][NextTwice]_vars

\* ------------------------------------------------------------------------
\* render_fountain_to_pdf: the blocks returned by parse_fountain are split
\* into title information and body blocks, then the body blocks are drawn
\* one after the other with the margins their kind has in the settings.
\* Page breaks, page numbers and the title page do not decide which block
\* is drawn and are left out.
\* ------------------------------------------------------------------------
PageWidth == 612
Inch == 72

LowerSeq == <<"a", "b", "c", "d", "e", "f", "g", "h", "i", "j", "k", "l", "m",
              "n", "o", "p", "q", "r", "s", "t", "u", "v", "w", "x", "y", "z">>

UpperSeq == <<"A", "B", "C", "D", "E", "F", "G", "H", "I", "J", "K", "L", "M",
              "N", "O", "P", "Q", "R", "S", "T", "U", "V", "W", "X", "Y", "Z">>

\* str.upper()
Upper(s) ==
    [n \in 1..Len(s) |->
        IF s[n] \in LowerChars
        THEN UpperSeq[CHOOSE m \in 1..Len(LowerSeq) : LowerSeq[m] = s[n]]
        ELSE s[n]]

\* sep.join(parts)
RECURSIVE JoinWith(_, _)
JoinWith(parts, sep) ==
    IF Len(parts) = 0 THEN <<>>
    ELSE IF Len(parts) = 1 THEN parts[1]
    ELSE parts[1] \o sep \o JoinWith(Tail(parts), sep)

\* The kinds the renderer looks up: every kind but metadata and cast
BodyKinds == PendingKinds \cup {"transition"}

\* The configuration files: margins in inches for every body kind, with or
\* without entries for metadata and cast, and either format style
MarginsFor(keys) ==
    [k \in keys |->
        [left_margin  |-> IF k = "character" THEN 3
                          ELSE IF k \in {"dialogue", "parenthetical"} THEN 2
                          ELSE 1,
         right_margin |-> 1]]

Configs ==
    {[margins |-> MarginsFor(BodyKinds \cup extra), format_style |-> f] :
        extra \in {{}, {"metadata", "cast"}},
        f \in {"standard", "parenthetical_actions"}}

\* variant: cast blocks are not taken out of the body
CategoryCastInBody(element) ==
    IF element.type = "metadata" THEN "metadata" ELSE "body"

\* the branch of the extraction loop that handles element
Category(element) ==
    IF element.type = "metadata" THEN "metadata"
    ELSE IF element.type = "cast" THEN "cast"
    ELSE "body"

\* the metadata branch: title, author and the first draft date
WithMetadata(info, text) ==
    IF StartsWith(text, TitlePrefix)
    THEN [info EXCEPT !.title = Upper(Replace(text, TitlePrefix \o <<" ">>, <<>>))]
    ELSE IF StartsWith(text, AuthorPrefix)
    THEN [info EXCEPT !.author = Replace(text, AuthorPrefix \o <<" ">>, <<>>)]
    ELSE IF StartsWith(text, DraftDatePrefix) /\ info.draft_date = <<>>
    THEN [info EXCEPT !.draft_date = Replace(text, DraftDatePrefix \o <<" ">>, <<>>)]
    ELSE info

\* the extraction loop over parsed_script
RECURSIVE Extract(_, _, _)
Extract(script, info, kept) ==
    IF script = <<>> THEN [info |-> info, kept |-> kept]
    ELSE LET element == Head(script)
         IN  IF Category(element) = "metadata"
             THEN Extract(Tail(script), WithMetadata(info, element.text), kept)
             ELSE IF Category(element) = "cast"
             THEN Extract(Tail(script), [info EXCEPT !.cast_list = element.text], kept)
             ELSE Extract(Tail(script), info, Append(kept, element))

\* textwrap.wrap(text, width) for a text without runs of blanks that fits
\* in one line, which every text of these inputs does
Wrap(text, width) ==
    CASE Len(text) = 0     -> <<>>
      [] Len(text) <= width -> <<text>>

\* wrapped_text of one body element
WrappedText(element, cfg) ==
    LET m         == cfg.margins[element.type]
        max_width == (PageWidth - m.right_margin * Inch) - m.left_margin * Inch
        width     == (max_width * 10) \div Inch
        text      == IF element.type = "cast"
                     THEN JoinWith(element.text, <<"\n">>)
                     ELSE element.text
    IN  IF element.type = "action" /\ cfg.format_style = "parenthetical_actions"
        THEN Wrap(<<"(">> \o text \o <<")">>, width)
        ELSE IF element.type \in {"action", "scene"}
        THEN Wrap(text, width)
        ELSE Split(text, "\n")

\* the body loop: a margin lookup and the drawing of one element after the
\* other; a kind that is missing in the settings raises KeyError
RECURSIVE Body(_, _, _, _)
Body(rest, cfg, looked, done) ==
    IF rest = <<>> THEN [lookups |-> looked, drawn |-> done, error |-> FALSE]
    ELSE LET element == Head(rest)
         IN  IF element.type \notin DOMAIN cfg.margins
             THEN [lookups |-> Append(looked, element.type), drawn |-> done,
                   error |-> TRUE]
             ELSE Body(Tail(rest), cfg, Append(looked, element.type),
                       Append(done,
                              [type  |-> element.type,
                               src   |-> element.src,
                               x     |-> cfg.margins[element.type].left_margin * Inch,
                               lines |-> WrappedText(element, cfg)]))

\* load the settings, take the parsed blocks and extract the title information
ExtractTitleInfo ==
    /\ pc = "done"
    /\ \E cfg \in Configs :
           LET r == Extract(blocks, NoTitleInfo, <<>>)
           IN  /\ settings' = cfg
               /\ title_info' = r.info
               /\ new_blocks' = r.kept
    /\ pc' = "extracted"
    /\ UNCHANGED <<lines, ii, blocks, current_block, rules, trace, calls, first,
                   lookups, drawn>>

\* draw the screenplay body and save the canvas
RenderBody ==
    /\ pc = "extracted"
    /\ LET r == Body(new_blocks, settings, <<>>, <<>>)
       IN  /\ lookups' = r.lookups
           /\ drawn' = r.drawn
           /\ pc' = IF r.error THEN "KeyError" ELSE "saved"
    /\ UNCHANGED <<lines, ii, blocks, current_block, rules, trace, calls, first,
                   settings, new_blocks, title_info>>

NextRender == Next \/ ExtractTitleInfo \/ RenderBody

SpecRender == Init /\ [][NextRender]_vars

\* ------------------------------------------------------------------------
\* Vocabulary of the properties
\* ------------------------------------------------------------------------
Range(f) == {f[k] : k \in DOMAIN f}

Trimmed(i) == Strip(lines[i])

Returned == pc = "done"

\* the pending block when line i was read
PendingBefore(i) == IF i = 1 THEN NoBlock ELSE trace[i - 1]

SameBlock(a, b) == a.type = b.type /\ a.src = b.src /\ a.text = b.text

\* positions of the output blocks that hold input line i
Holders(i) == {k \in 1..Len(blocks) : i \in Range(blocks[k].src)}

\* t occurs in s as a substring
Contains(s, t) == \E a \in 0..(Len(s) - Len(t)) : SubSeq(s, a + 1, a + Len(t)) = t

\* texts joined by exactly one space
RECURSIVE JoinSpace(_)
JoinSpace(ts) ==
    IF Len(ts) = 0 THEN <<>>
    ELSE IF Len(ts) = 1 THEN ts[1]
    ELSE ts[1] \o <<" ">> \o JoinSpace(Tail(ts))

\* a non-blank line that matches none of rules 2 to 7
Plain(s) ==
    /\ ~IsBlank(s)
    /\ ~IsMetadata(s) /\ ~IsCast(s) /\ ~IsTransition(s)
    /\ ~IsCharacter(s) /\ ~IsParenthetical(s) /\ ~IsScene(s)

\* ------------------------------------------------------------------------
\* C1: in the returned output, every non-blank line that is not a Metadata,
\* Cast or Transition line is held by exactly one block, and that block's
\* content contains the trimmed line.
\* ------------------------------------------------------------------------
C1_EveryLineInExactlyOneBlock ==
    Returned =>
        \A i \in 1..Len(lines) :
            rules[i] \notin {"blank", "metadata", "cast", "transition"} =>
                /\ Cardinality(Holders(i)) = 1
                /\ \A k \in Holders(i) : Contains(blocks[k].text, Trimmed(i))

\* ------------------------------------------------------------------------
\* C2: the returned blocks are in source line order: a block whose first
\* source line comes earlier in the input comes earlier in the output.
\* ------------------------------------------------------------------------
C2_SourceLineOrder ==
    Returned =>
        \A a, b \in 1..Len(blocks) :
            blocks[a].src[1] < blocks[b].src[1] => a < b

\* ------------------------------------------------------------------------
\* C3: each run of contiguous plain lines that opens a dialogue after a
\* Character or Parenthetical cue yields exactly one Dialogue block, whose
\* content is exactly the lines of that run joined by single spaces; the run
\* ends at the first blank line or line that matches another rule.
\* ------------------------------------------------------------------------
RunEnd(i) ==
    CHOOSE j \in i..Len(lines) :
        /\ \A m \in i..j : Plain(Trimmed(m))
        /\ j = Len(lines) \/ ~Plain(Trimmed(j + 1))

RunLines(i) == [m \in 1..(RunEnd(i) - i + 1) |-> i + m - 1]

RunText(i) == JoinSpace([m \in 1..(RunEnd(i) - i + 1) |-> Trimmed(i + m - 1)])

C3_DialogueIsOneContiguousRun ==
    Returned =>
        /\ \A i \in 1..Len(lines) :
               rules[i] = "dialogue" =>
                   Cardinality({k \in 1..Len(blocks) :
                       /\ blocks[k].type = "dialogue"
                       /\ blocks[k].src = RunLines(i)
                       /\ blocks[k].text = RunText(i)}) = 1
        /\ \A k \in 1..Len(blocks) :
               blocks[k].type = "dialogue" =>
                   /\ rules[blocks[k].src[1]] = "dialogue"
                   /\ blocks[k].src = RunLines(blocks[k].src[1])

\* ------------------------------------------------------------------------
\* C4: every line handled by the default Action rule has its own Action
\* block in the returned output, holding exactly that trimmed line; Action
\* blocks are in line order and none holds more than one line.
\* ------------------------------------------------------------------------
C4_ActionLinesHaveOwnBlocks ==
    Returned =>
        /\ \A i \in 1..Len(lines) :
               rules[i] = "action" =>
                   Cardinality({k \in 1..Len(blocks) :
                       SameBlock(blocks[k], Block("action", Trimmed(i), i))}) = 1
        /\ \A k \in 1..Len(blocks) :
               blocks[k].type = "action" => Len(blocks[k].src) = 1
        /\ \A a, b \in 1..Len(blocks) :
               /\ blocks[a].type = "action"
               /\ blocks[b].type = "action"
               /\ blocks[a].src[1] < blocks[b].src[1]
               => a < b

\* ------------------------------------------------------------------------
\* C5: the content of every Cast block is the list of names of its line
\* (prefix and surrounding brackets removed, split on commas), every name
\* trimmed and none empty.
\* ------------------------------------------------------------------------
C5_CastNamesTrimmedNonEmpty ==
    \A k \in 1..Len(blocks) :
        blocks[k].type = "cast" =>
            \A n \in 1..Len(blocks[k].text) :
                /\ blocks[k].text[n] = Strip(blocks[k].text[n])
                /\ blocks[k].text[n] # <<>>

\* ------------------------------------------------------------------------
\* C6: every processed transition line (one of the three transition words,
\* or ending in TO:, and neither a metadata nor a cast line) has exactly one
\* block in the output, a Transition block holding that trimmed line alone;
\* the line is part of no other block and the pending block is the same
\* after the line as before it.
\* ------------------------------------------------------------------------
TransitionAt(i) ==
    /\ Trimmed(i) \in {Blackout, FadeOut, FadeToBlack} \/ EndsWith(Trimmed(i), ToColon)
    /\ ~StartsWithAny(Trimmed(i), MetadataPrefixes \cup {CastPrefix})

C6_TransitionStandsAlone ==
    \A i \in 1..ii :
        TransitionAt(i) =>
            /\ Cardinality(Holders(i)) = 1
            /\ \A k \in Holders(i) :
                   SameBlock(blocks[k], Block("transition", Trimmed(i), i))
            /\ i \notin Range(current_block.src)
            /\ trace[i] = PendingBefore(i)

C6_Witness ==
    /\ Returned
    /\ \E i \in 2..ii :
           /\ TransitionAt(i)
           /\ PendingBefore(i).type = "dialogue"
           /\ i < ii
           /\ rules[i + 1] = "append"

\* ------------------------------------------------------------------------
\* C7: when parse_fountain returns with a block still pending, that block is
\* the last element of the output and occurs in it exactly once, whatever
\* the last line was.
\* ------------------------------------------------------------------------
C7_PendingFlushedAtEnd ==
    (Returned /\ current_block # NoBlock) =>
        /\ Len(blocks) > 0
        /\ SameBlock(blocks[Len(blocks)], current_block)
        /\ Cardinality({k \in 1..Len(blocks) : SameBlock(blocks[k], current_block)}) = 1

C7_Witness ==
    /\ Returned
    /\ Len(lines) > 1
    /\ ~IsBlank(Trimmed(Len(lines)))
    /\ current_block.type = "dialogue"
    /\ Len(current_block.src) > 1
    /\ SameBlock(blocks[Len(blocks)], current_block)

\* ------------------------------------------------------------------------
\* C8: every processed non-blank line is handled by the first rule it
\* matches in the order metadata, cast, transition, character,
\* parenthetical, scene heading, dialogue continuation, dialogue
\* accumulation, action, given the block pending when it was read; the
\* block the line ends up in has the kind of that rule.
\* ------------------------------------------------------------------------
RuleOrder ==
    <<"metadata", "cast", "transition", "character", "parenthetical",
      "scene", "dialogue", "append", "action">>

Matches(r, s, cb) ==
    CASE r = "metadata"      -> StartsWithAny(s, MetadataPrefixes)
      [] r = "cast"          -> StartsWith(s, CastPrefix)
      [] r = "transition"    -> s \in TransitionWords \/ EndsWith(s, ToColon)
      [] r = "character"     -> IsUpper(s) /\ ~StartsWithAny(s, ScenePrefixes)
      [] r = "parenthetical" -> StartsWith(s, <<"(">>) /\ EndsWith(s, <<")">>)
      [] r = "scene"         -> StartsWithAny(s, ScenePrefixes)
      [] r = "dialogue"      -> cb.type \in {"character", "parenthetical"}
      [] r = "append"        -> cb.type = "dialogue"
      [] r = "action"        -> TRUE

FirstMatch(s, cb) ==
    RuleOrder[CHOOSE n \in 1..Len(RuleOrder) :
                  /\ Matches(RuleOrder[n], s, cb)
                  /\ \A m \in 1..(n - 1) : ~Matches(RuleOrder[m], s, cb)]

KindOfRule(r) == IF r = "append" THEN "dialogue" ELSE r

C8_FirstMatchingRuleWins ==
    \A i \in 1..ii :
        ~IsBlank(Trimmed(i)) =>
            /\ rules[i] = FirstMatch(Trimmed(i), PendingBefore(i))
            /\ IF rules[i] \in EmitKinds
               THEN \A k \in Holders(i) : blocks[k].type = rules[i]
               ELSE trace[i].type = KindOfRule(rules[i])

C8_Witness ==
    /\ \E i \in 1..ii :
           /\ rules[i] = "character"
           /\ Matches("parenthetical", Trimmed(i), PendingBefore(i))
    /\ \E i \in 1..ii :
           /\ rules[i] = "transition"
           /\ Matches("character", Trimmed(i), PendingBefore(i))
    /\ \E i \in 1..ii :
           /\ rules[i] = "metadata"
           /\ Matches("transition", Trimmed(i), PendingBefore(i))
           /\ Matches("dialogue", Trimmed(i), PendingBefore(i))

Kinds == EmitKinds \cup PendingKinds

JustAssigned ==
    (pc = "loop" /\ ii >= 1 /\ ~IsBlank(Trimmed(ii))) =>
        IF rules[ii] \in EmitKinds
        THEN /\ Len(blocks) > 0
             /\ blocks[Len(blocks)].type = rules[ii]
             /\ blocks[Len(blocks)].src = <<ii>>
        ELSE /\ current_block.type = KindOfRule(rules[ii])
             /\ current_block.type \in PendingKinds
             /\ ii \in Range(current_block.src)

\* the branches that have a handler in the loop body
Handled ==
    {"blank", "metadata", "cast", "transition", "character", "parenthetical",
     "scene", "dialogue", "append", "action"}

\* the guard of some action of Next holds
CanStep == (\E r \in Handled : Taken(r)) \/ (pc = "loop" /\ ii = Len(lines))

C10_NeverRejects ==
    /\ pc \in {"loop", "done"}
    /\ pc = "loop" => CanStep
    /\ ii <= Len(lines) /\ Len(rules) = ii
    /\ \A i \in 1..ii : ~IsBlank(Trimmed(i)) => KindOfRule(rules[i]) \in Kinds
    /\ JustAssigned
    /\ Returned => ii = Len(lines) /\ Len(blocks) <= Len(lines)

C10_Witness ==
    /\ Returned
    /\ Len(blocks) >= 3
    /\ \E i \in 1..ii : rules[i] = "parenthetical" /\ PendingBefore(i) = NoBlock
    /\ \E i \in 1..ii : rules[i] = "action" /\ PendingBefore(i).type = "scene"
    /\ \E i \in 1..ii : rules[i] = "cast"

\* ------------------------------------------------------------------------
\* C11 as stated: every Dialogue block of the output has a Character block
\* somewhere before it.
\* ------------------------------------------------------------------------
C11_DialogueAfterCharacter ==
    Returned =>
        \A k \in 1..Len(blocks) :
            blocks[k].type = "dialogue" =>
                \E j \in 1..(k - 1) : blocks[j].type = "character"

\* ------------------------------------------------------------------------
\* C11 amended: a Dialogue block is only ever opened while a Character or a
\* Parenthetical block is pending, and that cue block is in the output
\* before the Dialogue block; the cue need not be a Character.
\* ------------------------------------------------------------------------
CueOf(b) == PendingBefore(b.src[1])

C11_DialogueAfterCue ==
    /\ \A k \in 1..Len(blocks) :
           blocks[k].type = "dialogue" =>
               /\ CueOf(blocks[k]).type \in {"character", "parenthetical"}
               /\ \E j \in 1..(k - 1) : SameBlock(blocks[j], CueOf(blocks[k]))
    /\ current_block.type = "dialogue" =>
           /\ CueOf(current_block).type \in {"character", "parenthetical"}
           /\ \E j \in 1..Len(blocks) : SameBlock(blocks[j], CueOf(current_block))

C11_Witness ==
    /\ Returned
    /\ \E k \in 1..Len(blocks) :
           /\ blocks[k].type = "dialogue"
           /\ CueOf(blocks[k]).type = "parenthetical"
           /\ \A j \in 1..Len(blocks) : blocks[j].type # "character"

\* ------------------------------------------------------------------------
\* The step that has just been made, seen from the state it leads to
\* ------------------------------------------------------------------------
JustStepped == pc = "loop" /\ ii >= 1

LastRule == rules[ii]

\* the block that was pending when the last processed line was read
Prior == PendingBefore(ii)

Accumulating(b) == b.type \in {"dialogue", "action", "scene"}

InOutput(b) == \E k \in 1..Len(blocks) : SameBlock(blocks[k], b)

\* b is still the pending block, possibly with more lines accumulated
StillPending(b) ==
    /\ current_block.type = b.type
    /\ Len(current_block.src) >= Len(b.src)
    /\ SubSeq(current_block.src, 1, Len(b.src)) = b.src

\* ------------------------------------------------------------------------
\* C12 as stated: a pending Dialogue, Action or Scene block is appended to
\* the output and cleared by a blank line only (or by the end of input),
\* never by a non-blank line.
\* ------------------------------------------------------------------------
C12_OnlyBlankTerminates ==
    (JustStepped /\ Accumulating(Prior) /\ InOutput(Prior)) => LastRule = "blank"

\* ------------------------------------------------------------------------
\* C12 amended: a pending Dialogue, Action or Scene block is appended to the
\* output and cleared by a blank line, by the end of input, and by a
\* character, scene heading or default action line, and by no other line:
\* a metadata, cast, transition or accumulated dialogue line leaves it
\* pending, and a parenthetical line replaces it without appending it.
\* ------------------------------------------------------------------------
C12_TerminatedByBlankOrBoundary ==
    /\ (JustStepped /\ Accumulating(Prior)) =>
           /\ InOutput(Prior) <=> LastRule \in {"blank", "character", "scene", "action"}
           /\ InOutput(Prior) => ~StillPending(Prior)
           /\ LastRule \in EmitKinds \cup {"append"} => StillPending(Prior)
           /\ LastRule = "parenthetical" => ~StillPending(Prior)
    /\ (Returned /\ Accumulating(current_block)) => InOutput(current_block)

C12_Witness ==
    /\ JustStepped
    /\ Prior.type = "dialogue"
    /\ Len(Prior.src) = 2
    /\ LastRule = "character"
    /\ InOutput(Prior)

\* ------------------------------------------------------------------------
\* C13: the step that processes a Metadata, Cast or Transition line appends
\* exactly one block, of that kind, to the output and leaves the pending
\* block as it was; a Dialogue pending before such a line accumulates the
\* plain line that comes right after it.
\* ------------------------------------------------------------------------
EmitNext ==
    /\ pc = "loop"
    /\ ii < Len(lines)
    /\ ~IsBlank(Trimmed(ii + 1))
    /\ FirstMatch(Trimmed(ii + 1), current_block) \in EmitKinds

EmitStep ==
    EmitNext =>
        /\ Len(blocks') = Len(blocks) + 1
        /\ SubSeq(blocks', 1, Len(blocks)) = blocks
        /\ blocks'[Len(blocks')].type = FirstMatch(Trimmed(ii + 1), current_block)
        /\ blocks'[Len(blocks')].src = <<ii + 1>>
        /\ current_block' = current_block

KeepsAccumulating ==
    \A i \in 2..(ii - 1) :
        (/\ rules[i] \in EmitKinds
         /\ PendingBefore(i).type = "dialogue"
         /\ Plain(Trimmed(i + 1)))
        => /\ rules[i + 1] = "append"
           /\ trace[i + 1].src = Append(PendingBefore(i).src, i + 1)
           /\ trace[i + 1].text = PendingBefore(i).text \o <<" ">> \o Trimmed(i + 1)

C13_EmitLeavesPending == [][EmitStep]_vars /\ []KeepsAccumulating

C13_Witness ==
    /\ ii >= 4
    /\ rules[3] = "cast"
    /\ PendingBefore(3).type = "dialogue"
    /\ rules[4] = "append"
    /\ Len(blocks) = 2

\* ------------------------------------------------------------------------
\* C14: when a character line is directly followed by a parenthetical line,
\* then by a line that matches none of rules 2 to 7, then by a blank line,
\* the output holds, next to each other and in this order, a Character, a
\* Parenthetical and a Dialogue block with exactly those trimmed lines.
\* ------------------------------------------------------------------------
CueSequenceAt(i) ==
    /\ i + 3 <= Len(lines)
    /\ ~IsBlank(Trimmed(i))
    /\ FirstMatch(Trimmed(i), NoBlock) = "character"
    /\ ~IsBlank(Trimmed(i + 1))
    /\ FirstMatch(Trimmed(i + 1), NoBlock) = "parenthetical"
    /\ Plain(Trimmed(i + 2))
    /\ IsBlank(Trimmed(i + 3))

C14_CueSequenceYieldsThreeBlocks ==
    \A i \in 1..Len(lines) :
        (CueSequenceAt(i) /\ ii >= i + 3) =>
            \E k \in 1..(Len(blocks) - 2) :
                /\ SameBlock(blocks[k], Block("character", Trimmed(i), i))
                /\ SameBlock(blocks[k + 1], Block("parenthetical", Trimmed(i + 1), i + 1))
                /\ SameBlock(blocks[k + 2], Block("dialogue", Trimmed(i + 2), i + 2))

C14_Witness ==
    /\ Returned
    /\ CueSequenceAt(1)
    /\ Len(blocks) = 3
    /\ blocks[3].type = "dialogue"

\* ------------------------------------------------------------------------
\* C15: a processed line that starts with INT. or EXT. and is no metadata,
\* cast or transition line is handled by the scene rule, also when it is
\* upper-case: the block that was pending is in the output and the pending
\* block after the line is a Scene holding exactly the trimmed line.
\* ------------------------------------------------------------------------
SceneLineAt(i) ==
    /\ StartsWithAny(Trimmed(i), {IntPrefix, ExtPrefix})
    /\ ~StartsWithAny(Trimmed(i), MetadataPrefixes \cup {CastPrefix})
    /\ Trimmed(i) \notin {Blackout, FadeOut, FadeToBlack}
    /\ ~EndsWith(Trimmed(i), ToColon)

C15_SceneNeverCharacter ==
    \A i \in 1..ii :
        SceneLineAt(i) =>
            /\ rules[i] = "scene"
            /\ SameBlock(trace[i], Block("scene", Trimmed(i), i))
            /\ PendingBefore(i) # NoBlock => InOutput(PendingBefore(i))
            /\ \A k \in Holders(i) : blocks[k].type = "scene"

C15_Witness ==
    /\ JustStepped
    /\ SceneLineAt(ii)
    /\ IsUpper(Trimmed(ii))
    /\ Prior.type = "dialogue"
    /\ InOutput(Prior)
    /\ current_block.type = "scene"

\* ------------------------------------------------------------------------
\* C16: there is one pending slot; what it holds is either nothing or one
\* block of kind Character, Parenthetical, Scene, Dialogue or Action that
\* was opened by a processed line, never a Metadata, Cast or Transition
\* block; right after a blank line nothing is pending.
\* ------------------------------------------------------------------------
C16_OnePendingBlock ==
    /\ \/ current_block = NoBlock
       \/ /\ current_block.type \in PendingKinds
          /\ current_block.type \notin EmitKinds
          /\ Len(current_block.src) >= 1
          /\ \A n \in 1..Len(current_block.src) : current_block.src[n] \in 1..ii
    /\ \A i \in 1..ii : IsBlank(Trimmed(i)) => trace[i] = NoBlock
    /\ (JustStepped /\ IsBlank(Trimmed(ii))) => current_block = NoBlock

C16_Witness ==
    /\ JustStepped
    /\ ii >= 3
    /\ IsBlank(Trimmed(ii))
    /\ Prior.type = "dialogue"
    /\ current_block = NoBlock
    /\ \E i \in 1..ii : rules[i] \in EmitKinds /\ PendingBefore(i) # NoBlock

\* ------------------------------------------------------------------------
\* C17: every step appends at most one block to the output and leaves the
\* blocks already there as they were, in place and content; while the loop
\* runs the pending block is not in the output, so accumulation never
\* touches an output block; no block is in the output twice.
\* ------------------------------------------------------------------------
AppendOnly ==
    /\ Len(blocks') >= Len(blocks)
    /\ Len(blocks') <= Len(blocks) + 1
    /\ SubSeq(blocks', 1, Len(blocks)) = blocks

NoDuplicates ==
    /\ \A a, b \in 1..Len(blocks) : blocks[a].src[1] = blocks[b].src[1] => a = b
    /\ (pc = "loop" /\ current_block # NoBlock) =>
           \A k \in 1..Len(blocks) : blocks[k].src[1] # current_block.src[1]

C17_OutputAppendOnly == [][AppendOnly]_vars /\ []NoDuplicates

C17_Witness ==
    /\ JustStepped
    /\ LastRule = "append"
    /\ Len(current_block.src) = 2
    /\ Len(blocks) = 2
    /\ ~InOutput(Prior)

\* ------------------------------------------------------------------------
\* C18: among the Metadata, Cast and Transition blocks of the output, and
\* among its Character, Parenthetical, Scene, Dialogue and Action blocks, a
\* block opened by an earlier line comes earlier.
\* ------------------------------------------------------------------------
C18_OrderWithinFamilies ==
    \A a, b \in 1..Len(blocks) :
        (/\ a < b
         /\ \/ blocks[a].type \in EmitKinds /\ blocks[b].type \in EmitKinds
            \/ blocks[a].type \in PendingKinds /\ blocks[b].type \in PendingKinds)
        => blocks[a].src[1] < blocks[b].src[1]

C18_Witness ==
    /\ Returned
    /\ Len(blocks) = 4
    /\ blocks[1].type \in EmitKinds
    /\ blocks[2].type \in PendingKinds
    /\ blocks[3].type \in EmitKinds
    /\ blocks[4].type \in PendingKinds
    /\ blocks[2].src[1] < blocks[1].src[1]

\* ------------------------------------------------------------------------
\* C19: the renderer keeps for the body exactly the blocks of the
\* classifier's output that are neither metadata nor cast, in their order,
\* looks up the margins of exactly those blocks, one lookup per block and
\* none fails, and draws each of them with the left margin of its kind;
\* the cast list of the title information is the last Cast block, and no
\* metadata or cast block is drawn.
\* ------------------------------------------------------------------------
BodyPositions == {k \in 1..Len(blocks) : blocks[k].type \notin {"metadata", "cast"}}

NthBody(n) ==
    CHOOSE k \in BodyPositions : Cardinality({j \in BodyPositions : j < k}) = n - 1

CastPositions == {k \in 1..Len(blocks) : blocks[k].type = "cast"}

C19_BodyIsNonTitleBlocks ==
    /\ pc # "KeyError"
    /\ pc \in {"extracted", "saved"} =>
           /\ Len(new_blocks) = Cardinality(BodyPositions)
           /\ \A n \in 1..Len(new_blocks) : SameBlock(new_blocks[n], blocks[NthBody(n)])
           /\ CastPositions # {} =>
                  \E k \in CastPositions :
                      /\ \A j \in CastPositions : j <= k
                      /\ title_info.cast_list = blocks[k].text
    /\ pc = "saved" =>
           /\ Len(drawn) = Cardinality(BodyPositions)
           /\ Len(lookups) = Cardinality(BodyPositions)
           /\ \A n \in 1..Len(drawn) :
                  /\ drawn[n].type = blocks[NthBody(n)].type
                  /\ drawn[n].type \notin {"metadata", "cast"}
                  /\ drawn[n].src = blocks[NthBody(n)].src
                  /\ Len(drawn[n].lines) >= 1
                  /\ lookups[n] = drawn[n].type
                  /\ drawn[n].x = settings.margins[drawn[n].type].left_margin * Inch
    /\ pc \in {"loop", "done", "extracted"} => drawn = <<>> /\ lookups = <<>>

C19_Witness ==
    /\ pc = "saved"
    /\ Len(blocks) = 4
    /\ blocks[1].type = "cast"
    /\ blocks[2].type = "character"
    /\ blocks[3].type = "metadata"
    /\ blocks[4].type = "dialogue"
    /\ Len(drawn) = 2
    /\ "cast" \in DOMAIN settings.margins

====
